---- MODULE Spec2Model ----
(***************************************************************************)
(* The streaming chat turn of POST /api/messages/stream                    *)
(* (server/routes.ts) with the Gemini stream generator and its marker      *)
(* parsers (server/lib/gemini.ts).                                         *)
(*                                                                         *)
(* Text is a sequence of one-character strings, so that the regular        *)
(* expressions, the brace counter and JSON.parse act on characters as in   *)
(* the source.  JavaScript indexes from 0 and the model from 1.            *)
(***************************************************************************)
EXTENDS Integers, Sequences, FiniteSets, TLC

\* ------------------------------------------------------------------------
\* Bounds of the model
\* ------------------------------------------------------------------------
MaxHeartbeats == 1
MaxFaults == 2
MaxFragments == 3
MaxSandboxOps == 3

\* ------------------------------------------------------------------------
\* String primitives
\* ------------------------------------------------------------------------
WordChars ==
  {"a","b","c","d","e","f","g","h","i","j","k","l","m","n","o","p","q","r",
   "s","t","u","v","w","x","y","z","_","0","1","2","3"}

WhiteSpace == {" ", "\n"}

StartsWithAt(s, i, p) ==
  /\ i >= 1
  /\ i + Len(p) - 1 <= Len(s)
  /\ \A k \in 1..Len(p) : s[i + k - 1] = p[k]

\* first index j >= i where p occurs in s, 0 when there is none
IndexOfFrom(s, p, i) ==
  LET hits == { j \in i..(Len(s) - Len(p) + 1) : StartsWithAt(s, j, p) }
  IN  IF hits = {} THEN 0 ELSE CHOOSE j \in hits : \A h \in hits : j <= h

Includes(s, p) == IndexOfFrom(s, p, 1) # 0

\* String.prototype.trim
Trim(s) ==
  LET keep == { j \in 1..Len(s) : s[j] \notin WhiteSpace }
  IN  IF keep = {} THEN <<>>
      ELSE SubSeq(s, CHOOSE a \in keep : \A h \in keep : a <= h,
                     CHOOSE b \in keep : \A h \in keep : b >= h)

\* ------------------------------------------------------------------------
\* JSON.parse, for the values tool arguments are made of: objects whose
\* members are strings or objects.  A parsed string is [t |-> "str", v |->
\* its characters], a parsed object [t |-> "obj", v |-> its members in
\* order, each <<key, value>>].  Anything else is a SyntaxError (ok = FALSE).
\* ------------------------------------------------------------------------
ParseFail == [ok |-> FALSE, pos |-> 0, val |-> <<>>]

RECURSIVE SkipWs(_, _)
SkipWs(s, i) ==
  IF i <= Len(s) /\ s[i] \in WhiteSpace THEN SkipWs(s, i + 1) ELSE i

Unescape(c) ==
  IF c = "n" THEN "\n" ELSE IF c = "t" THEN "\t" ELSE c

\* the characters of a string literal after its opening quote
RECURSIVE StrScan(_, _, _)
StrScan(s, j, acc) ==
  IF j > Len(s) THEN ParseFail
  ELSE IF s[j] = "\"" THEN [ok |-> TRUE, pos |-> j + 1, val |-> acc]
  ELSE IF s[j] = "\\"
       THEN IF j + 1 <= Len(s) /\ s[j + 1] \in {"\"", "\\", "/", "n", "t"}
            THEN StrScan(s, j + 2, Append(acc, Unescape(s[j + 1])))
            ELSE ParseFail
  ELSE IF s[j] = "\n" THEN ParseFail
  ELSE StrScan(s, j + 1, Append(acc, s[j]))

RECURSIVE ParseValue(_, _)
RECURSIVE ParseMembers(_, _, _)

ParseValue(s, i0) ==
  LET i == SkipWs(s, i0) IN
  IF i > Len(s) THEN ParseFail
  ELSE IF s[i] = "\""
       THEN LET r == StrScan(s, i + 1, <<>>) IN
            IF r.ok THEN [ok |-> TRUE, pos |-> r.pos,
                          val |-> [t |-> "str", v |-> r.val]]
            ELSE ParseFail
  ELSE IF s[i] = "{"
       THEN LET j == SkipWs(s, i + 1) IN
            IF j <= Len(s) /\ s[j] = "}"
            THEN [ok |-> TRUE, pos |-> j + 1, val |-> [t |-> "obj", v |-> <<>>]]
            ELSE ParseMembers(s, j, <<>>)
  ELSE ParseFail

\* members of an object from position i (at a key), up to the closing brace
ParseMembers(s, i, acc) ==
  IF i > Len(s) \/ s[i] # "\"" THEN ParseFail
  ELSE LET k == StrScan(s, i + 1, <<>>) IN
       IF ~k.ok THEN ParseFail
       ELSE LET c == SkipWs(s, k.pos) IN
            IF c > Len(s) \/ s[c] # ":" THEN ParseFail
            ELSE LET v == ParseValue(s, c + 1) IN
                 IF ~v.ok THEN ParseFail
                 ELSE LET e == SkipWs(s, v.pos)
                          acc2 == Append(acc, <<k.val, v.val>>)
                      IN  IF e > Len(s) THEN ParseFail
                          ELSE IF s[e] = "}"
                               THEN [ok |-> TRUE, pos |-> e + 1,
                                     val |-> [t |-> "obj", v |-> acc2]]
                          ELSE IF s[e] = ","
                               THEN ParseMembers(s, SkipWs(s, e + 1), acc2)
                          ELSE ParseFail

JSONParse(s) ==
  LET r == ParseValue(s, 1) IN
  IF r.ok /\ SkipWs(s, r.pos) = Len(s) + 1
  THEN [ok |-> TRUE, val |-> r.val]
  ELSE [ok |-> FALSE, val |-> <<>>]

\* property read args.key of a parsed object: the value of the last member
\* named key, Undefined when there is none
Undefined == [t |-> "undefined", v |-> <<>>]

Prop(args, key) ==
  LET hits == { j \in 1..Len(args.v) : args.v[j][1] = key } IN
  IF args.t # "obj" \/ hits = {} THEN Undefined
  ELSE args.v[CHOOSE j \in hits : \A h \in hits : j >= h][2]

\* ------------------------------------------------------------------------
\* Marker parsers of server/lib/gemini.ts
\* ------------------------------------------------------------------------
ActionOpen == <<"[", "a", "c", "t", "i", "o", "n", ":">>
ToolOpen == <<"[", "t", "o", "o", "l", ":">>

\* /\[action:(.*?)\]/g from position i: the leftmost "[action:" whose
\* description reaches a "]" before a line end; [at, end, desc] or at = 0
RECURSIVE ActionMatchFrom(_, _)
ActionMatchFrom(s, i) ==
  LET at == IndexOfFrom(s, ActionOpen, i) IN
  IF at = 0 THEN [at |-> 0, end |-> 0, desc |-> <<>>]
  ELSE LET d == at + Len(ActionOpen)
           rb == IndexOfFrom(s, <<"]">>, d)
           nl == IndexOfFrom(s, <<"\n">>, d)
       IN  IF rb # 0 /\ (nl = 0 \/ rb < nl)
           THEN [at |-> at, end |-> rb + 1, desc |-> SubSeq(s, d, rb - 1)]
           ELSE ActionMatchFrom(s, at + 1)

\* the while loop of parseActionsFromBuffer: the actions pushed and lastIndex.
\* at is the position of the marker in the buffer (match.index); the source's
\* ActionMatch has description and status only, and no code reads at
RECURSIVE ActionLoop(_, _, _, _)
ActionLoop(s, i, acts, lastIndex) ==
  LET m == ActionMatchFrom(s, i) IN
  IF m.at = 0 THEN [actions |-> acts, lastIndex |-> lastIndex]
  ELSE LET description == Trim(m.desc) IN
       ActionLoop(s, m.end,
                  IF description # <<>>
                  THEN Append(acts, [description |-> description,
                                     status |-> "in_progress",
                                     at |-> m.at])
                  ELSE acts,
                  m.end)

\* lastIndex is kept 1-based here: the position after the last match, 0
\* when nothing matched (the source's lastIndex > 0 test)
parseActionsFromBuffer(buffer, isFinal) ==
  LET r == ActionLoop(buffer, 1, <<>>, 0)
      rest == SubSeq(buffer, r.lastIndex, Len(buffer))
  IN  [actions |-> r.actions,
       remaining |->
         IF ~isFinal /\ r.lastIndex > 0
         THEN IF Includes(rest, ActionOpen) THEN rest ELSE <<>>
         ELSE IF isFinal THEN <<>>
         ELSE buffer]

\* the brace counter of parseToolCalls: jsonEnd, 0 when depth never
\* returns to zero after the first character
RECURSIVE BraceEnd(_, _, _)
BraceEnd(jsonStr, i, braceCount) ==
  IF i > Len(jsonStr) THEN 0
  ELSE LET c == braceCount + (IF jsonStr[i] = "{" THEN 1 ELSE 0)
                           - (IF jsonStr[i] = "}" THEN 1 ELSE 0)
       IN  IF c = 0 /\ i > 1 THEN i ELSE BraceEnd(jsonStr, i + 1, c)

\* end of the maximal run of word characters starting at i (first index
\* after it)
RECURSIVE WordEnd(_, _)
WordEnd(s, i) ==
  IF i <= Len(s) /\ s[i] \in WordChars THEN WordEnd(s, i + 1) ELSE i

\* /\[tool:(\w+)\](\{[\s\S]*?)(?=\[tool:|$)/g from position i:
\* [at, name, raw, end] of the leftmost match, at = 0 when there is none
RECURSIVE ToolMatchFrom(_, _)
ToolMatchFrom(s, i) ==
  LET at == IndexOfFrom(s, ToolOpen, i) IN
  IF at = 0 THEN [at |-> 0, name |-> <<>>, raw |-> <<>>, end |-> 0]
  ELSE LET n == at + Len(ToolOpen)
           w == WordEnd(s, n)
       IN  IF w > n /\ StartsWithAt(s, w, <<"]", "{">>)
           THEN LET nxt == IndexOfFrom(s, ToolOpen, w + 2)
                    e == IF nxt = 0 THEN Len(s) + 1 ELSE nxt
                IN  [at |-> at, name |-> SubSeq(s, n, w - 1),
                     raw |-> SubSeq(s, w + 1, e - 1), end |-> e]
           ELSE ToolMatchFrom(s, at + 1)

\* as ToolOfMatch, but a payload that does not parse is passed on unparsed
ToolOfMatch_KeepsUnparsed(m) ==
  LET trimmed == Trim(m.raw)
      jsonEnd == BraceEnd(trimmed, 1, 0)
      jsonStr == IF jsonEnd > 0 THEN SubSeq(trimmed, 1, jsonEnd) ELSE trimmed
      args == JSONParse(jsonStr)
  IN  << [name |-> m.name,
          arguments |-> IF args.ok THEN args.val ELSE Undefined,
          at |-> m.at] >>

\* the body of the while loop for one match: the ToolCall pushed, or none
\* when JSON.parse throws.  at is the position of the marker in the output;
\* the source's ToolCall has name and arguments only, and no code reads at
ToolOfMatch(m) ==
  LET trimmed == Trim(m.raw)
      jsonEnd == BraceEnd(trimmed, 1, 0)
      jsonStr == IF jsonEnd > 0 THEN SubSeq(trimmed, 1, jsonEnd) ELSE trimmed
      args == JSONParse(jsonStr)
  IN  IF args.ok
      THEN << [name |-> m.name, arguments |-> args.val, at |-> m.at] >>
      ELSE << >>

\* as ToolLoop, but a parsed call is put in front of the earlier ones
RECURSIVE ToolLoop_Prepend(_, _, _)
ToolLoop_Prepend(content, i, tools) ==
  LET m == ToolMatchFrom(content, i) IN
  IF m.at = 0 THEN tools
  ELSE ToolLoop_Prepend(content, m.end, ToolOfMatch(m) \o tools)

RECURSIVE ToolLoop(_, _, _)
ToolLoop(content, i, tools) ==
  LET m == ToolMatchFrom(content, i) IN
  IF m.at = 0 THEN tools
  ELSE ToolLoop(content, m.end, tools \o ToolOfMatch(m))

parseToolCalls(content) == ToolLoop(content, 1, <<>>)

\* ------------------------------------------------------------------------
\* Names the dispatcher of server/routes.ts compares with
\* ------------------------------------------------------------------------
WRITE_FILE == <<"w", "r", "i", "t", "e", "_", "f", "i", "l", "e">>
EDIT_FILE == <<"e", "d", "i", "t", "_", "f", "i", "l", "e">>
DELETE_FILE == <<"d", "e", "l", "e", "t", "e", "_", "f", "i", "l", "e">>
LIST_FILES == <<"l", "i", "s", "t", "_", "f", "i", "l", "e", "s">>
READ_FILE == <<"r", "e", "a", "d", "_", "f", "i", "l", "e">>
RUN_SHELL == <<"r", "u", "n", "_", "s", "h", "e", "l", "l">>
RUN_CODE == <<"r", "u", "n", "_", "c", "o", "d", "e">>
CONFIGURE_WORKFLOW == <<"c", "o", "n", "f", "i", "g", "u", "r", "e", "_", "w", "o", "r", "k", "f", "l", "o", "w">>

K_path == <<"p", "a", "t", "h">>
K_content == <<"c", "o", "n", "t", "e", "n", "t">>
K_old_str == <<"o", "l", "d", "_", "s", "t", "r">>
K_new_str == <<"n", "e", "w", "_", "s", "t", "r">>
K_command == <<"c", "o", "m", "m", "a", "n", "d">>
K_code == <<"c", "o", "d", "e">>
K_language == <<"l", "a", "n", "g", "u", "a", "g", "e">>

\* command.match(/python\s+.*\.py/)
MatchesPythonScript(command) ==
  \E i \in 1..Len(command), p \in 1..Len(command), j \in 1..Len(command) :
    /\ StartsWithAt(command, i, <<"p", "y", "t", "h", "o", "n">>)
    /\ p > i + 6 /\ \A k \in (i + 6)..(p - 1) : command[k] \in WhiteSpace
    /\ j >= p /\ StartsWithAt(command, j, <<".", "p", "y">>)
    /\ \A k \in p..(j - 1) : command[k] # "\n"

isServerCommand(command) ==
  \/ Includes(command, <<"p", "y", "t", "h", "o", "n", " ", "-", "m", " ", "h", "t", "t", "p", ".", "s", "e", "r", "v", "e", "r">>)
  \/ Includes(command, <<"n", "p", "m", " ", "s", "t", "a", "r", "t">>)
  \/ Includes(command, <<"n", "p", "m", " ", "r", "u", "n", " ", "d", "e", "v">>)
  \/ Includes(command, <<"n", "o", "d", "e", " ">>)
  \/ MatchesPythonScript(command)
  \/ Includes(command, <<"f", "l", "a", "s", "k", " ", "r", "u", "n">>)
  \/ Includes(command, <<"s", "t", "r", "e", "a", "m", "l", "i", "t", " ", "r", "u", "n">>)

\* String.prototype.replace with a string pattern: the first occurrence
Replace(s, old, new) ==
  LET i == IndexOfFrom(s, old, 1) IN
  IF i = 0 THEN s
  ELSE SubSeq(s, 1, i - 1) \o new \o SubSeq(s, i + Len(old), Len(s))

\* ------------------------------------------------------------------------
\* Inputs: the model's output as the provider fragments it, the submitted
\* user message, and what the project holds when the turn starts
\* ------------------------------------------------------------------------
StreamBuild ==
  << <<"O", "k", " ", "[", "a", "c", "t", "i", "o", "n", ":", "B", "u", "i", "l", "d", "]">>,
     <<"[", "t", "o", "o", "l", ":", "w", "r", "i", "t", "e", "_", "f", "i", "l", "e", "]", "{", "\"", "p", "a", "t", "h", "\"", ":", "\"", "a", "\"", ",", "\"", "c", "o", "n", "t", "e", "n", "t", "\"", ":", "\"", "x", "\"", "}">>,
     <<"[", "t", "o", "o", "l", ":", "r", "u", "n", "_", "s", "h", "e", "l", "l", "]", "{", "\"", "c", "o", "m", "m", "a", "n", "d", "\"", ":", "\"", "n", "p", "m", " ", "r", "u", "n", " ", "d", "e", "v", "\"", "}", " ", "d", "o", "n", "e">> >>

StreamFix ==
  << <<"[", "a", "c", "t", "i", "o", "n", ":", "F", "i", "x", "]", "[", "t", "o", "o", "l", ":", "e", "d", "i", "t", "_", "f", "i", "l", "e", "]", "{", "\"", "p", "a", "t", "h", "\"", ":", "\"", "a", "\"", ",", "\"", "o", "l", "d", "_", "s", "t", "r", "\"", ":", "\"", "x", "\"", ",", "\"", "n", "e", "w", "_", "s", "t", "r", "\"", ":", "\"", "y", "\"", "}">>,
     <<"[", "a", "c", "t", "i", "o", "n", ":", "C", "l", "e", "a", "n", "]", "[", "t", "o", "o", "l", ":", "r", "u", "n", "_", "s", "h", "e", "l", "l", "]", "{", "\"", "c", "o", "m", "m", "a", "n", "d", "\"", ":", "\"", "l", "s", "\"", "}", "[", "t", "o", "o", "l", ":", "d", "e", "l", "e", "t", "e", "_", "f", "i", "l", "e", "]", "{", "\"", "p", "a", "t", "h", "\"", ":", "\"", "a", "\"", "}">> >>

StreamLook ==
  << <<"[", "t", "o", "o", "l", ":", "r", "e", "a", "d", "_", "f", "i", "l", "e", "]", "{", "\"", "p", "a", "t", "h", "\"", ":", "\"", "a", "\"", "}", "[", "t", "o", "o", "l", ":", "l", "i", "s", "t", "_", "f", "i", "l", "e", "s", "]", "{", "}">>,
     <<"[", "t", "o", "o", "l", ":", "r", "u", "n", "_", "c", "o", "d", "e", "]", "{", "\"", "c", "o", "d", "e", "\"", ":", "\"", "1", "\"", ",", "\"", "l", "a", "n", "g", "u", "a", "g", "e", "\"", ":", "\"", "p", "y", "t", "h", "o", "n", "\"", "}">>,
     <<"[", "t", "o", "o", "l", ":", "c", "o", "n", "f", "i", "g", "u", "r", "e", "_", "w", "o", "r", "k", "f", "l", "o", "w", "]", "{", "\"", "c", "o", "m", "m", "a", "n", "d", "\"", ":", "\"", "l", "s", "\"", "}">> >>

StreamTalk ==
  << <<"H", "e", "l", "l", "o", " ", "[", "t", "o", "o", "l", ":", "w", "e", "b", "_", "s", "e", "a", "r", "c", "h", "]", "{", "\"", "q", "u", "e", "r", "y", "\"", ":", "\"", "q", "\"", "}">> >>

\* an unparseable payload, two server commands, and a payload cut short by
\* the end of the output
StreamBroken ==
  << <<"[", "t", "o", "o", "l", ":", "r", "u", "n", "_", "c", "o", "d", "e", "]", "{", "o", "o", "p", "s", "}", "[", "t", "o", "o", "l", ":", "r", "u", "n", "_", "s", "h", "e", "l", "l", "]", "{", "\"", "c", "o", "m", "m", "a", "n", "d", "\"", ":", "\"", "n", "o", "d", "e", " ", "s", "\"", "}">>,
     <<"[", "t", "o", "o", "l", ":", "r", "u", "n", "_", "s", "h", "e", "l", "l", "]", "{", "\"", "c", "o", "m", "m", "a", "n", "d", "\"", ":", "\"", "n", "p", "m", " ", "s", "t", "a", "r", "t", "\"", "}", "[", "t", "o", "o", "l", ":", "w", "r", "i", "t", "e", "_", "f", "i", "l", "e", "]", "{", "\"", "p", "a", "t", "h", "\"", ":", "\"", "a", "\"", ",", "\"", "c", "o", "n">> >>

\* two writes of one path and an edit whose old_str occurs nowhere
StreamWrite ==
  << <<"[", "t", "o", "o", "l", ":", "w", "r", "i", "t", "e", "_", "f", "i", "l", "e", "]", "{", "\"", "p", "a", "t", "h", "\"", ":", "\"", "a", "\"", ",", "\"", "c", "o", "n", "t", "e", "n", "t", "\"", ":", "\"", "y", "\"", "}">>,
     <<"[", "t", "o", "o", "l", ":", "w", "r", "i", "t", "e", "_", "f", "i", "l", "e", "]", "{", "\"", "p", "a", "t", "h", "\"", ":", "\"", "a", "\"", ",", "\"", "c", "o", "n", "t", "e", "n", "t", "\"", ":", "\"", "z", "\"", "}", "[", "t", "o", "o", "l", ":", "e", "d", "i", "t", "_", "f", "i", "l", "e", "]", "{", "\"", "p", "a", "t", "h", "\"", ":", "\"", "a", "\"", ",", "\"", "o", "l", "d", "_", "s", "t", "r", "\"", ":", "\"", "q", "\"", ",", "\"", "n", "e", "w", "_", "s", "t", "r", "\"", ":", "\"", "r", "\"", "}">> >>

Streams ==
  {StreamBuild, StreamFix, StreamLook, StreamTalk, StreamBroken, StreamWrite}

\* ------------------------------------------------------------------------
\* Inputs of the generator alone: raw outputs and every way the provider
\* can cut one into at most MaxFragments fragments
\* ------------------------------------------------------------------------
RawOutputs ==
  { <<"[", "a", "c", "t", "i", "o", "n", ":", "A", "]", "[", "a", "c", "t", "i", "o", "n", ":", "B", "]">>,
    <<"a", "[", "a", "c", "t", "i", "o", "n", ":", "C", "]", "b">>,
    <<"[", "t", "o", "o", "l", ":", "t", "]", "{", "}", "[", "a", "c", "t", "i", "o", "n", ":", "D", "]">> }

RECURSIVE Splits(_, _)
Splits(raw, k) ==
  IF k <= 1 \/ Len(raw) <= 1 THEN { << raw >> }
  ELSE { << raw >> } \cup
       UNION { { << SubSeq(raw, 1, i) >> \o rest :
                 rest \in Splits(SubSeq(raw, i + 1, Len(raw)), k - 1) } :
               i \in 1..(Len(raw) - 1) }

ParserStreams == UNION { Splits(raw, MaxFragments) : raw \in RawOutputs }

UserContent == <<"h", "i">>

PathA == <<"a">>
ContentX == <<"x">>

\* encryption.ts 113: `projects/${projectId}/${filePath}`
ProjectId == <<"1">>

S3KeyOf(path) == <<"p", "r", "o", "j", "e", "c", "t", "s", "/">> \o ProjectId \o <<"/">> \o path

FileA == [id |-> 1, path |-> PathA, s3Key |-> S3KeyOf(PathA), size |-> 1]

InitialProjects ==
  { [files |-> {}, blobs |-> {}, sandboxFs |-> {}],
    [files |-> {FileA},
     blobs |-> {[key |-> S3KeyOf(PathA), content |-> ContentX]},
     sandboxFs |-> {[path |-> PathA, content |-> ContentX]}] }

NoCommand == <<>>

\* ------------------------------------------------------------------------
\* State
\* ------------------------------------------------------------------------
VARIABLES
  pc,                 \* where the handler is suspended, or how it ended
  clientConnected,    \* routes.ts:525
  keepaliveInterval,  \* [active, sent, afterClose, afterEnd] of the timer
  resEnded,           \* the response has been ended
  log,                \* events written to the client channel, in order
  messages,           \* the project's persisted ChatTurns
  aiMessages,         \* the context sent to the model
  stream,             \* fragments the provider has still to produce
  fullContent,        \* chatWithAIStream: everything received
  buffer,             \* chatWithAIStream: unconsumed tail for actions
  pending,            \* tool_call events the generator has still to yield
  fullResponse,       \* handler: text relayed
  actions,            \* handler: ActionRecords
  toolCalls,          \* handler: ToolCallRecords
  completedActions,   \* handler: the actions as marked at the end
  cur,                \* the tool call being dispatched, <<>> when none
  files,              \* File records
  nextFileId,
  blobs,              \* blob store
  sandboxFs,          \* sandbox file system
  workflowCommand,    \* the project's workflow command
  running,            \* markers of shell commands still running
  effects,            \* every side effect performed, with its marker
  dispatched,         \* markers of the tool calls handed to the dispatcher
  yielded,            \* events the generator has yielded, with their text
  thrown,             \* markers of the tool calls whose dispatch threw
  activeSandboxes,    \* part_014:182, the project's entry: none or one
  sandboxOps,         \* the sandbox operations issued for the project
  sandboxesCreated,   \* how many sandboxes Sandbox.create has made
  faults,             \* collaborator failures injected so far
  failure             \* what ended the turn early, and after how much output

vars ==
  << pc, clientConnected, keepaliveInterval, resEnded, log, messages,
     aiMessages, stream, fullContent, buffer, pending, fullResponse,
     actions, toolCalls, completedActions, cur, files, nextFileId, blobs,
     sandboxFs, workflowCommand, running, effects, dispatched, yielded,
     thrown, activeSandboxes, sandboxOps, sandboxesCreated, faults,
     failure >>

handlerVars ==
  << stream, fullContent, buffer, pending, fullResponse, actions, toolCalls,
     completedActions, cur, yielded >>

sandboxVars == << activeSandboxes, sandboxOps, sandboxesCreated >>

projectVars ==
  << files, nextFileId, blobs, sandboxFs, workflowCommand, running, effects,
     dispatched, thrown, sandboxVars >>

\* x.length > 0 ? x : null
NullIfEmpty(x) == [isNull |-> x = <<>>, items |-> x]

NoFailure == [kind |-> "none", received |-> 0]

\* a sandbox operation that has not been issued; sandbox is the handle
\* getOrCreateSandbox returned to it, 0 when it has none
IdleOp == [pc |-> "idle", sandbox |-> 0]

\* the state when the handler has set up the channel and the timer, for a
\* model output taken from streams
Start(streams) ==
  /\ pc = "setup"
  /\ clientConnected = TRUE
  /\ keepaliveInterval =
       [active |-> TRUE, sent |-> 0, afterClose |-> FALSE, afterEnd |-> FALSE]
  /\ resEnded = FALSE
  /\ log = <<>>
  /\ messages = <<>>
  /\ aiMessages = <<>>
  /\ stream \in streams
  /\ fullContent = <<>>
  /\ buffer = <<>>
  /\ pending = <<>>
  /\ fullResponse = <<>>
  /\ actions = <<>>
  /\ toolCalls = <<>>
  /\ completedActions = <<>>
  /\ cur = <<>>
  /\ \E p \in InitialProjects :
       /\ files = p.files
       /\ blobs = p.blobs
       /\ sandboxFs = p.sandboxFs
  /\ nextFileId = 2
  /\ workflowCommand = NoCommand
  /\ running = {}
  /\ effects = <<>>
  /\ dispatched = <<>>
  /\ yielded = <<>>
  /\ thrown = {}
  /\ activeSandboxes = <<>>
  /\ sandboxOps = [ o \in 1..MaxSandboxOps |-> IdleOp ]
  /\ sandboxesCreated = 0
  /\ faults = 0
  /\ failure = NoFailure

Init == Start(Streams)

ParserInit == Start(ParserStreams)

\* ------------------------------------------------------------------------
\* Collaborators: blob store, sandbox file system, File table
\* ------------------------------------------------------------------------
PutBlob(store, key, content) ==
  { b \in store : b.key # key } \cup {[key |-> key, content |-> content]}

PutSandbox(fs, path, content) ==
  { f \in fs : f.path # path } \cup {[path |-> path, content |-> content]}

\* storage.getFileByPath: the record of the path with the least id, if any
getFileByPath(table, path) ==
  LET hits == { f \in table : f.path = path } IN
  IF hits = {} THEN {}
  ELSE { CHOOSE f \in hits : \A g \in hits : f.id <= g.id }

getFileFromS3(store, key) ==
  LET hits == { b \in store : b.key = key } IN
  IF hits = {} THEN {} ELSE { (CHOOSE b \in hits : TRUE).content }

Str(v) == v.v

Effect(tc, kind) == [at |-> tc.at, kind |-> kind]

\* What one dispatch does, given the collaborator steps that fail (f): the
\* project after it, the side effects performed, whether it threw into the
\* toolError catch, and the ToolCallRecord it pushed (rec, empty or one).
Outcome(b, s, fl, nid, wf, eff, threw, rec) ==
  [blobs |-> b, sandboxFs |-> s, files |-> fl, nextFileId |-> nid,
   workflowCommand |-> wf, effects |-> eff, threw |-> threw, rec |-> rec]

Unchanged(eff, threw, rec) ==
  Outcome(blobs, sandboxFs, files, nextFileId, workflowCommand, eff, threw, rec)

Record(tc, summary, result) ==
  [name |-> tc.name, arguments |-> tc.arguments, summary |-> summary,
   result |-> result, at |-> tc.at]

NoResult == [kind |-> "none"]

\* routes.ts 618-631: storage.updateFile for the record found by path,
\* storage.createFile when there is none
UpsertFile(existingFile, path, s3Key, size) ==
  IF existingFile # {}
  THEN [files |-> { IF g \in existingFile
                    THEN [g EXCEPT !.s3Key = s3Key, !.size = size]
                    ELSE g : g \in files },
        nextFileId |-> nextFileId, effect |-> "file_update"]
  ELSE [files |-> files \cup {[id |-> nextFileId, path |-> path,
                               s3Key |-> s3Key, size |-> size]},
        nextFileId |-> nextFileId + 1, effect |-> "file_create"]

\* routes.ts 605-637
DispatchWriteFile(tc, f) ==
  LET path == Str(Prop(tc.arguments, K_path))
      finalContent == Str(Prop(tc.arguments, K_content))
      s3Key == S3KeyOf(path)
      b2 == PutBlob(blobs, s3Key, finalContent)
      s2 == PutSandbox(sandboxFs, path, finalContent)
      existingFile == getFileByPath(files, path)
      e1 == << Effect(tc, "blob_put") >>
      e2 == e1 \o << Effect(tc, "sandbox_write") >>
      u == UpsertFile(existingFile, path, s3Key, Len(finalContent))
  IN  IF "s3" \in f THEN Unchanged(<<>>, TRUE, <<>>)
      ELSE IF "sandbox" \in f
           THEN Outcome(b2, sandboxFs, files, nextFileId, workflowCommand,
                        e1, TRUE, <<>>)
      ELSE IF "db" \in f
           THEN Outcome(b2, s2, files, nextFileId, workflowCommand,
                        e2, TRUE, <<>>)
      ELSE Outcome(b2, s2, u.files, u.nextFileId, workflowCommand,
                   e2 \o << Effect(tc, u.effect) >>, FALSE,
                   << Record(tc, [kind |-> "Created", arg |-> path],
                             NoResult) >>)

\* routes.ts 638-666
DispatchEditFile(tc, f) ==
  LET path == Str(Prop(tc.arguments, K_path))
      old_str == Str(Prop(tc.arguments, K_old_str))
      new_str == Str(Prop(tc.arguments, K_new_str))
      existingFile == getFileByPath(files, path)
      key == (CHOOSE g \in existingFile : TRUE).s3Key
      currentContent == getFileFromS3(blobs, key)
      fileContent == Replace(CHOOSE c \in currentContent : TRUE,
                             old_str, new_str)
      s3Key == S3KeyOf(path)
      b2 == PutBlob(blobs, s3Key, fileContent)
      s2 == PutSandbox(sandboxFs, path, fileContent)
      e1 == << Effect(tc, "blob_put") >>
      e2 == e1 \o << Effect(tc, "sandbox_write") >>
  IN  IF "db" \in f \/ existingFile = {} THEN Unchanged(<<>>, TRUE, <<>>)
      ELSE IF "s3get" \in f \/ currentContent = {}
           THEN Unchanged(<<>>, TRUE, <<>>)
      ELSE IF "s3" \in f THEN Unchanged(<<>>, TRUE, <<>>)
      ELSE IF "sandbox" \in f
           THEN Outcome(b2, sandboxFs, files, nextFileId, workflowCommand,
                        e1, TRUE, <<>>)
      ELSE Outcome(b2, s2, files, nextFileId, workflowCommand, e2, FALSE,
                   << Record(tc, [kind |-> "Edited", arg |-> path],
                             NoResult) >>)

\* deleteFileFromSandbox as routes.ts 688-693 uses it: it never throws and
\* returns success, with an error when the sandbox did not delete the file
deleteFileFromSandbox(fs, path, fails) ==
  IF fails THEN [success |-> FALSE, fs |-> fs]
  ELSE [success |-> TRUE, fs |-> { x \in fs : x.path # path }]

\* as ShouldDeleteRecord, but only when both deletions succeeded
ShouldDeleteRecord_Both(s3, sandbox) == s3 /\ sandbox

\* routes.ts 696: deletionStatus.s3 || deletionStatus.sandbox
ShouldDeleteRecord(s3, sandbox) == s3 \/ sandbox

\* as DispatchDeleteFile, but the File record is deleted whatever became
\* of the blob and of the sandbox file
DispatchDeleteFile_AlwaysDeletesRecord(tc, f) ==
  LET path == Str(Prop(tc.arguments, K_path))
      existingFile == getFileByPath(files, path)
      g == CHOOSE x \in existingFile : TRUE
      s3 == "s3del" \notin f
      sandboxDeletion == deleteFileFromSandbox(sandboxFs, path,
                                               "sandboxdel" \in f)
      sandbox == sandboxDeletion.success
      database == "dbdel" \notin f
      errors == (IF s3 THEN <<>> ELSE << "S3" >>)
                \o (IF sandbox THEN <<>> ELSE << "Sandbox" >>)
                \o (IF ShouldDeleteRecord(s3, sandbox) /\ ~database
                    THEN << "Database" >> ELSE <<>>)
      eff == (IF s3 THEN << Effect(tc, "blob_delete") >> ELSE <<>>)
             \o (IF sandbox THEN << Effect(tc, "sandbox_delete") >> ELSE <<>>)
             \o (IF database THEN << Effect(tc, "file_delete") >> ELSE <<>>)
  IN  IF "db" \in f THEN Unchanged(<<>>, TRUE, <<>>)
      ELSE IF existingFile = {}
           THEN Unchanged(<<>>, FALSE,
                  << Record(tc, [kind |-> "NotFound", arg |-> path],
                            [kind |-> "deletion", s3 |-> FALSE,
                             sandbox |-> FALSE, database |-> FALSE]) >>)
      ELSE Outcome(IF s3 THEN { b \in blobs : b.key # g.s3Key } ELSE blobs,
                   sandboxDeletion.fs,
                   IF database THEN files \ {g} ELSE files,
                   nextFileId, workflowCommand, eff, FALSE,
                   << Record(tc,
                             [kind |-> IF errors # <<>>
                                       THEN "PartiallyDeleted" ELSE "Deleted",
                              arg |-> path, errors |-> errors],
                             [kind |-> "deletion", s3 |-> s3,
                              sandbox |-> sandbox, database |-> database]) >>)

\* routes.ts 667-717
DispatchDeleteFile(tc, f) ==
  LET path == Str(Prop(tc.arguments, K_path))
      existingFile == getFileByPath(files, path)
      g == CHOOSE x \in existingFile : TRUE
      s3 == "s3del" \notin f
      sandboxDeletion == deleteFileFromSandbox(sandboxFs, path,
                                               "sandboxdel" \in f)
      sandbox == sandboxDeletion.success
      database == ShouldDeleteRecord(s3, sandbox) /\ "dbdel" \notin f
      errors == (IF s3 THEN <<>> ELSE << "S3" >>)
                \o (IF sandbox THEN <<>> ELSE << "Sandbox" >>)
                \o (IF ShouldDeleteRecord(s3, sandbox) /\ ~database
                    THEN << "Database" >> ELSE <<>>)
      eff == (IF s3 THEN << Effect(tc, "blob_delete") >> ELSE <<>>)
             \o (IF sandbox THEN << Effect(tc, "sandbox_delete") >> ELSE <<>>)
             \o (IF database THEN << Effect(tc, "file_delete") >> ELSE <<>>)
  IN  IF "db" \in f THEN Unchanged(<<>>, TRUE, <<>>)
      ELSE IF existingFile = {}
           THEN Unchanged(<<>>, FALSE,
                  << Record(tc, [kind |-> "NotFound", arg |-> path],
                            [kind |-> "deletion", s3 |-> FALSE,
                             sandbox |-> FALSE, database |-> FALSE]) >>)
      ELSE Outcome(IF s3 THEN { b \in blobs : b.key # g.s3Key } ELSE blobs,
                   sandboxDeletion.fs,
                   IF database THEN files \ {g} ELSE files,
                   nextFileId, workflowCommand, eff, FALSE,
                   << Record(tc,
                             [kind |-> IF errors # <<>>
                                       THEN "PartiallyDeleted" ELSE "Deleted",
                              arg |-> path, errors |-> errors],
                             [kind |-> "deletion", s3 |-> s3,
                              sandbox |-> sandbox, database |-> database]) >>)

\* routes.ts 718-731
DispatchListFiles(tc, f) ==
  IF "db" \in f THEN Unchanged(<<>>, TRUE, <<>>)
  ELSE Unchanged(<<>>, FALSE,
         << Record(tc, [kind |-> "Listed", arg |-> Cardinality(files)],
                   [kind |-> "fileList",
                    list |-> { [path |-> g.path, size |-> g.size] :
                               g \in files }]) >>)

\* routes.ts 732-748
DispatchReadFile(tc, f) ==
  LET path == Str(Prop(tc.arguments, K_path))
      existingFile == getFileByPath(files, path)
      key == (CHOOSE g \in existingFile : TRUE).s3Key
      content == getFileFromS3(blobs, key)
  IN  IF "db" \in f \/ existingFile = {} THEN Unchanged(<<>>, TRUE, <<>>)
      ELSE IF "s3get" \in f \/ content = {} THEN Unchanged(<<>>, TRUE, <<>>)
      ELSE Unchanged(<<>>, FALSE,
             << Record(tc, [kind |-> "Read", arg |-> path],
                       [kind |-> "content", path |-> path,
                        content |-> CHOOSE c \in content : TRUE]) >>)

ShellResult(stdout, stderr, exitCode) ==
  [kind |-> "shell", stdout |-> stdout, stderr |-> stderr,
   exitCode |-> exitCode]

\* as TimeoutResult, but the timeout is reported as a failure of the
\* command
TimeoutResult_Fails == ShellResult("", "Command timeout", 1)

\* routes.ts 788-792: what the catch of Promise.race makes of the timer's
\* rejection
TimeoutResult ==
  ShellResult("", "Command timed out (running in background)", 0)

\* as DispatchRunShell, but the command of a server is not saved as the
\* project's workflow command
DispatchRunShell_NoWorkflow(tc, launched, f) ==
  LET command == Prop(tc.arguments, K_command) IN
  IF command.t # "str" THEN Unchanged(<<>>, TRUE, <<>>)
  ELSE IF isServerCommand(Str(command))
  THEN IF "db" \in f THEN Unchanged(<<>>, TRUE, <<>>)
       ELSE Unchanged(<<>>, FALSE,
              << Record(tc, [kind |-> "Started", arg |-> Str(command)],
                        ShellResult("Server started in background",
                                    "", 0)) >>)
  ELSE Unchanged(<<>>, FALSE,
         << Record(tc, [kind |-> "RanShell", arg |-> Str(command)],
                   IF ~launched THEN ShellResult("", "sandbox error", 1)
                   ELSE IF "timeout" \in f THEN TimeoutResult
                   ELSE IF "exit1" \in f THEN ShellResult("", "failed", 1)
                   ELSE ShellResult("out", "", 0)) >>)

\* routes.ts 749-799, from the point where the handler resumes: after
\* storage.updateProject for a server command, after Promise.race for any
\* other command.  launched tells whether executeShellCommand reached the
\* sandbox (DispatchStart).
DispatchRunShell(tc, launched, f) ==
  LET command == Prop(tc.arguments, K_command) IN
  IF command.t # "str" THEN Unchanged(<<>>, TRUE, <<>>)
  ELSE IF isServerCommand(Str(command))
  THEN IF "db" \in f THEN Unchanged(<<>>, TRUE, <<>>)
       ELSE Outcome(blobs, sandboxFs, files, nextFileId, Str(command),
                    << Effect(tc, "workflow_save") >>, FALSE,
                    << Record(tc, [kind |-> "Started", arg |-> Str(command)],
                              ShellResult("Server started in background",
                                          "", 0)) >>)
  ELSE Unchanged(<<>>, FALSE,
         << Record(tc, [kind |-> "RanShell", arg |-> Str(command)],
                   IF ~launched THEN ShellResult("", "sandbox error", 1)
                   ELSE IF "timeout" \in f THEN TimeoutResult
                   ELSE IF "exit1" \in f THEN ShellResult("", "failed", 1)
                   ELSE ShellResult("out", "", 0)) >>)

\* routes.ts 800-807 with executeCode, which returns an error result
\* instead of throwing
DispatchRunCode(tc, f) ==
  LET language == Str(Prop(tc.arguments, K_language)) IN
  IF "sandbox" \in f
  THEN Unchanged(<<>>, FALSE,
         << Record(tc, [kind |-> "Executed", arg |-> language],
                   ShellResult("", "sandbox error", 1)) >>)
  ELSE Unchanged(<< Effect(tc, "code_exec") >>, FALSE,
         << Record(tc, [kind |-> "Executed", arg |-> language],
                   IF "exit1" \in f THEN ShellResult("", "error", 1)
                   ELSE ShellResult("out", "", 0)) >>)

\* routes.ts 808-824
DispatchConfigureWorkflow(tc, f) ==
  LET command == Str(Prop(tc.arguments, K_command)) IN
  IF "db" \in f THEN Unchanged(<<>>, TRUE, <<>>)
  ELSE Outcome(blobs, sandboxFs, files, nextFileId, command,
               << Effect(tc, "workflow_save") >>, FALSE,
               << Record(tc, [kind |-> "Configured", arg |-> command],
                         [kind |-> "workflow", command |-> command]) >>)

IsServerCall(tc) ==
  /\ tc.name = RUN_SHELL
  /\ Prop(tc.arguments, K_command).t = "str"
  /\ isServerCommand(Str(Prop(tc.arguments, K_command)))

IsShellCall(tc) ==
  tc.name = RUN_SHELL /\ Prop(tc.arguments, K_command).t = "str"

\* the collaborator failures one dispatch can meet
FaultChoices(tc, launched) ==
  IF tc.name = WRITE_FILE THEN {{}, {"s3"}, {"sandbox"}, {"db"}}
  ELSE IF tc.name = EDIT_FILE
       THEN {{}, {"db"}, {"s3get"}, {"s3"}, {"sandbox"}}
  ELSE IF tc.name = DELETE_FILE
       THEN {{"db"}} \cup SUBSET {"s3del", "sandboxdel", "dbdel"}
  ELSE IF tc.name = LIST_FILES THEN {{}, {"db"}}
  ELSE IF tc.name = READ_FILE THEN {{}, {"db"}, {"s3get"}}
  ELSE IF IsServerCall(tc) THEN {{}, {"db"}}
  ELSE IF IsShellCall(tc)
       THEN IF launched THEN {{}, {"exit1"}, {"timeout"}} ELSE {{}}
  ELSE IF tc.name = RUN_CODE THEN {{}, {"exit1"}, {"sandbox"}}
  ELSE IF tc.name = CONFIGURE_WORKFLOW THEN {{}, {"db"}}
  ELSE {{}}

\* the if / else-if chain of routes.ts 605-824; a name none of the
\* branches tests falls through: nothing is done and nothing recorded
Dispatch(tc, launched, f) ==
  IF tc.name = WRITE_FILE THEN DispatchWriteFile(tc, f)
  ELSE IF tc.name = EDIT_FILE THEN DispatchEditFile(tc, f)
  ELSE IF tc.name = DELETE_FILE THEN DispatchDeleteFile(tc, f)
  ELSE IF tc.name = LIST_FILES THEN DispatchListFiles(tc, f)
  ELSE IF tc.name = READ_FILE THEN DispatchReadFile(tc, f)
  ELSE IF tc.name = RUN_SHELL THEN DispatchRunShell(tc, launched, f)
  ELSE IF tc.name = RUN_CODE THEN DispatchRunCode(tc, f)
  ELSE IF tc.name = CONFIGURE_WORKFLOW THEN DispatchConfigureWorkflow(tc, f)
  ELSE Unchanged(<<>>, FALSE, <<>>)

\* ------------------------------------------------------------------------
\* The client channel
\* ------------------------------------------------------------------------
\* an event as the channel carries it; connected records clientConnected
\* at the time of the write, ref the marker the event is about (0: none)
Event(type, ref) == [type |-> type, ref |-> ref, connected |-> clientConnected]

\* if (clientConnected) res.write(...)
WriteIfConnected(l, type, ref) ==
  IF clientConnected THEN Append(l, Event(type, ref)) ELSE l

RECURSIVE WriteAllIfConnected(_, _, _)
WriteAllIfConnected(l, type, n) ==
  IF n = 0 THEN l ELSE WriteAllIfConnected(WriteIfConnected(l, type, 0), type, n - 1)

clearInterval(k) == [k EXCEPT !.active = FALSE]

\* ------------------------------------------------------------------------
\* Transport and timer
\* ------------------------------------------------------------------------
\* req.on('close'), routes.ts 526-528.  The callback is an event-loop task:
\* it cannot run between the end of the dispatch loop and the writes that
\* follow it without an await (pc = "finalize").
Close ==
  /\ clientConnected
  /\ pc # "finalize"
  /\ clientConnected' = FALSE
  /\ UNCHANGED << pc, keepaliveInterval, resEnded, log, messages, aiMessages,
                  handlerVars, projectVars, faults, failure >>

\* the setInterval callback, routes.ts 531-537
Heartbeat ==
  /\ keepaliveInterval.active
  /\ pc # "finalize"
  /\ IF clientConnected
     THEN /\ keepaliveInterval.sent < MaxHeartbeats
          /\ keepaliveInterval' =
               [keepaliveInterval EXCEPT !.sent = @ + 1,
                                         !.afterClose = @ \/ ~clientConnected,
                                         !.afterEnd = @ \/ resEnded]
     ELSE keepaliveInterval' = clearInterval(keepaliveInterval)
  /\ UNCHANGED << pc, clientConnected, resEnded, log, messages, aiMessages,
                  handlerVars, projectVars, faults, failure >>

\* a shell command left running in the sandbox finishes
CommandReturns ==
  /\ \E at \in running :
       /\ IF cur = <<>> THEN TRUE
          ELSE cur[1].tc.at # at \/ IsServerCall(cur[1].tc)
       /\ running' = running \ {at}
  /\ UNCHANGED << pc, clientConnected, keepaliveInterval, resEnded, log,
                  messages, aiMessages, handlerVars, files, nextFileId, blobs,
                  sandboxFs, workflowCommand, effects, dispatched, thrown,
                  sandboxVars, faults, failure >>

\* ------------------------------------------------------------------------
\* The handler, one action per resumption after an await
\* ------------------------------------------------------------------------
\* the outer catch, routes.ts 868-871: res.status(500).json(...).  Express
\* throws instead of writing when the headers have already gone out with a
\* keepalive; the interval is left running
SetupCatch ==
  /\ pc' = "setup_error"
  /\ failure' = [kind |-> "setup", received |-> 0]
  /\ IF keepaliveInterval.sent = 0
     THEN /\ log' = Append(log, Event("http500", 0))
          /\ resEnded' = TRUE
     ELSE UNCHANGED << log, resEnded >>
  /\ UNCHANGED << clientConnected, keepaliveInterval, messages, aiMessages,
                  handlerVars, projectVars, faults >>

\* as StreamingCatch, but the terminal done event follows the error
StreamingCatch_WritesDone(kind) ==
  /\ pc' = "stream_error"
  /\ failure' = [kind |-> kind, received |-> Len(fullContent)]
  /\ keepaliveInterval' = clearInterval(keepaliveInterval)
  /\ log' = WriteIfConnected(WriteIfConnected(log, "error", 0), "done", 0)
  /\ resEnded' = (resEnded \/ clientConnected)
  /\ UNCHANGED << clientConnected, messages, aiMessages, handlerVars,
                  projectVars, faults >>

\* the streaming catch, routes.ts 860-867
StreamingCatch(kind) ==
  /\ pc' = "stream_error"
  /\ failure' = [kind |-> kind, received |-> Len(fullContent)]
  /\ keepaliveInterval' = clearInterval(keepaliveInterval)
  /\ log' = WriteIfConnected(log, "error", 0)
  /\ resEnded' = (resEnded \/ clientConnected)
  /\ UNCHANGED << clientConnected, messages, aiMessages, handlerVars,
                  projectVars, faults >>

\* routes.ts 540-545: the user message as stored
UserMessage(content) ==
  [role |-> "user", content |-> content,
   toolCalls |-> NullIfEmpty(<<>>), actions |-> NullIfEmpty(<<>>)]

\* routes.ts 539-545: storage.createMessage for the user message returns
SaveUserMessage ==
  /\ pc = "setup"
  /\ pc' = "context"
  /\ messages' = Append(messages, UserMessage(UserContent))
  /\ UNCHANGED << clientConnected, keepaliveInterval, resEnded, log,
                  aiMessages, handlerVars, projectVars, faults, failure >>

SaveUserMessageFails ==
  /\ pc = "setup"
  /\ SetupCatch

SandboxContext == <<"\n", "\n", "[", "S", "A", "N", "D", "B", "O", "X", " ", "S", "T", "A", "T", "U", "S", "]", "\n">>

\* routes.ts 568-577: role and content of every stored message, then the
\* current user message with the sandbox context
ContextOf(previousMessages, userMessageWithContext) ==
  Append([ i \in 1..Len(previousMessages) |->
           [role |-> previousMessages[i].role,
            content |-> previousMessages[i].content] ],
         [role |-> "user", content |-> userMessageWithContext])

\* routes.ts 547-577: the probes (which never throw), then the history and
\* the context; isActive is what getSandboxStatus reports
BuildContext ==
  /\ pc = "context"
  /\ \E isActive \in BOOLEAN :
       LET sandboxContext == IF isActive THEN SandboxContext ELSE <<>>
           previousMessages == messages
           userMessageWithContext ==
             IF sandboxContext # <<>> THEN UserContent \o sandboxContext
             ELSE UserContent
       IN  aiMessages' = ContextOf(previousMessages, userMessageWithContext)
  /\ pc' = "model"
  /\ UNCHANGED << clientConnected, keepaliveInterval, resEnded, log, messages,
                  handlerVars, projectVars, faults, failure >>

\* storage.getProject or storage.getMessagesByProjectId rejects
BuildContextFails ==
  /\ pc = "context"
  /\ SetupCatch

\* gemini.ts 293-310: generateContentStream resolves
ModelCall ==
  /\ pc = "model"
  /\ pc' = "stream"
  /\ UNCHANGED << clientConnected, keepaliveInterval, resEnded, log, messages,
                  aiMessages, handlerVars, projectVars, faults, failure >>

\* the key is missing or generateContentStream rejects
ModelCallFails ==
  /\ pc = "model"
  /\ StreamingCatch("model_call")

\* an event of the generator with the span of the output it is about:
\* the fragment of a text event, the marker position of the others
Yield(type, from, to) == [type |-> type, from |-> from, to |-> to]

\* the actions of a buffer that starts after base characters of the output,
\* with at counted from the start of the output
Located(acts, base) ==
  [ i \in 1..Len(acts) |-> [acts[i] EXCEPT !.at = @ + base] ]

YieldActions(acts) ==
  [ i \in 1..Len(acts) |-> Yield("action", acts[i].at, acts[i].at) ]

\* gemini.ts 315-331 and routes.ts 586-598: one fragment arrives; its
\* action events and then its text event are handled without an await
Fragment ==
  /\ pc = "stream"
  /\ stream # <<>>
  /\ LET content == Head(stream)
         actionMatches == parseActionsFromBuffer(buffer \o content, FALSE)
         found == Located(actionMatches.actions,
                          Len(fullContent) - Len(buffer))
     IN  /\ stream' = Tail(stream)
         /\ IF content # <<>>
            THEN /\ fullContent' = fullContent \o content
                 /\ buffer' = actionMatches.remaining
                 /\ actions' = actions \o found
                 /\ fullResponse' = fullResponse \o content
                 /\ yielded' = yielded \o YieldActions(found)
                                \o << Yield("text", Len(fullContent) + 1,
                                            Len(fullContent) + Len(content)) >>
                 /\ log' = WriteIfConnected(
                             WriteAllIfConnected(log, "action",
                                                 Len(actionMatches.actions)),
                             "chunk", 0)
            ELSE UNCHANGED << fullContent, buffer, actions, fullResponse,
                              yielded, log >>
  /\ UNCHANGED << pc, clientConnected, keepaliveInterval, resEnded, messages,
                  aiMessages, pending, toolCalls, completedActions, cur,
                  projectVars, faults, failure >>

\* the provider's stream rejects while the generator awaits it
StreamFails ==
  /\ pc = "stream"
  /\ StreamingCatch("stream")

\* gemini.ts 333-346: the stream is done; the rest of the buffer is parsed
\* for actions and the whole output for tool calls
StreamEnd ==
  /\ pc = "stream"
  /\ stream = <<>>
  /\ LET finalActions ==
           IF Trim(buffer) # <<>>
           THEN Located(parseActionsFromBuffer(buffer, TRUE).actions,
                        Len(fullContent) - Len(buffer))
           ELSE <<>>
         toolCallsParsed == parseToolCalls(fullContent)
     IN  /\ actions' = actions \o finalActions
         /\ yielded' = yielded \o YieldActions(finalActions)
         /\ log' = WriteAllIfConnected(log, "action", Len(finalActions))
         /\ pending' = toolCallsParsed
         /\ pc' = IF toolCallsParsed = <<>> THEN "finalize" ELSE "tools"
  /\ UNCHANGED << clientConnected, keepaliveInterval, resEnded, messages,
                  aiMessages, stream, fullContent, buffer, fullResponse,
                  toolCalls, completedActions, cur, projectVars, faults,
                  failure >>

\* routes.ts 599-604 and the first await of the branch: the next tool_call
\* event is taken; a run_shell command is handed to executeShellCommand,
\* which starts it in the sandbox unless the sandbox cannot be reached
DispatchStart ==
  /\ pc = "tools"
  /\ pending # <<>>
  /\ LET tc == Head(pending) IN
       /\ pending' = Tail(pending)
       /\ dispatched' = Append(dispatched, tc.at)
       /\ yielded' = Append(yielded, Yield("tool_call", tc.at, tc.at))
       /\ IF IsShellCall(tc)
          THEN \E launched \in BOOLEAN :
                 /\ ~launched => faults < MaxFaults
                 /\ faults' = IF launched THEN faults ELSE faults + 1
                 /\ cur' = << [tc |-> tc, launched |-> launched] >>
                 /\ running' = IF launched THEN running \cup {tc.at}
                               ELSE running
                 /\ effects' = IF launched
                               THEN Append(effects, Effect(tc, "shell_launch"))
                               ELSE effects
          ELSE /\ cur' = << [tc |-> tc, launched |-> FALSE] >>
               /\ UNCHANGED << running, effects, faults >>
  /\ pc' = "dispatching"
  /\ UNCHANGED << clientConnected, keepaliveInterval, resEnded, log, messages,
                  aiMessages, stream, fullContent, buffer, fullResponse,
                  actions, toolCalls, completedActions, files, nextFileId,
                  blobs, sandboxFs, workflowCommand, thrown, sandboxVars,
                  failure >>

\* as ResumeAfter, but a throwing tool call leaves the loop
ResumeAfter_Rethrow(o) ==
  IF o.threw THEN "stream_error"
  ELSE IF pending = <<>> THEN "finalize" ELSE "tools"

\* routes.ts 825-832: the toolError catch swallows the exception, and the
\* for await loop goes on to the next event or ends
ResumeAfter(o) == IF pending = <<>> THEN "finalize" ELSE "tools"

\* as RunningAfter, but no shell command is waited for
RunningAfter_NoWait(tc, f) == running

\* routes.ts 761-765 and 783-792: a server command is not awaited; any
\* other command has returned when Promise.race settles, unless the timer
\* won the race
RunningAfter(tc, f) ==
  IF IsShellCall(tc) /\ ~IsServerCall(tc) /\ "timeout" \notin f
  THEN running \ {tc.at} ELSE running

\* the rest of the branch, routes.ts 605-830: the side effects return or
\* throw, the record is pushed and the client told
DispatchFinish ==
  /\ pc = "dispatching"
  /\ \E f \in FaultChoices(cur[1].tc, cur[1].launched) :
       LET tc == cur[1].tc
           o == Dispatch(tc, cur[1].launched, f)
       IN  /\ faults + Cardinality(f) <= MaxFaults
           /\ faults' = faults + Cardinality(f)
           /\ blobs' = o.blobs
           /\ sandboxFs' = o.sandboxFs
           /\ files' = o.files
           /\ nextFileId' = o.nextFileId
           /\ workflowCommand' = o.workflowCommand
           /\ effects' = effects \o o.effects
           /\ running' = RunningAfter(tc, f)
           /\ toolCalls' = toolCalls \o o.rec
           /\ thrown' = IF o.threw THEN thrown \cup {tc.at} ELSE thrown
           /\ log' = IF o.threw THEN WriteIfConnected(log, "error", tc.at)
                     ELSE IF o.rec # <<>>
                          THEN WriteIfConnected(log, "tool", tc.at)
                     ELSE log
           /\ pc' = ResumeAfter(o)
  /\ cur' = <<>>
  /\ UNCHANGED << clientConnected, keepaliveInterval, resEnded, messages,
                  aiMessages, stream, fullContent, buffer, pending,
                  fullResponse, actions, completedActions, dispatched,
                  yielded, sandboxVars, failure >>

\* routes.ts 835-838
\* as MarkCompleted, but the statuses are left as emitted
MarkCompleted_KeepStatus(as) == as

MarkCompleted(as) ==
  [ i \in 1..Len(as) |-> [as[i] EXCEPT !.status = "completed"] ]

\* as Finalize, but the terminal done event is written before
\* storage.createMessage is issued
Finalize_WritesDone ==
  /\ pc = "finalize"
  /\ completedActions' = MarkCompleted(actions)
  /\ log' = WriteIfConnected(
              IF Len(actions) > 0
              THEN WriteIfConnected(log, "actions_completed", 0) ELSE log,
              "done", 0)
  /\ pc' = "persist"
  /\ UNCHANGED << clientConnected, keepaliveInterval, resEnded, messages,
                  aiMessages, stream, fullContent, buffer, pending,
                  fullResponse, actions, toolCalls, cur, yielded, projectVars,
                  faults, failure >>

\* routes.ts 834-846: actions marked completed, the client told, and
\* storage.createMessage issued
Finalize ==
  /\ pc = "finalize"
  /\ completedActions' = MarkCompleted(actions)
  /\ log' = IF Len(actions) > 0
            THEN WriteIfConnected(log, "actions_completed", 0) ELSE log
  /\ pc' = "persist"
  /\ UNCHANGED << clientConnected, keepaliveInterval, resEnded, messages,
                  aiMessages, stream, fullContent, buffer, pending,
                  fullResponse, actions, toolCalls, cur, yielded, projectVars,
                  faults, failure >>

\* as AssistantSaved, but only for a client that is still connected
AssistantSaved_IfConnected ==
  IF clientConnected
  THEN Append(messages,
         [role |-> "assistant", content |-> fullResponse,
          toolCalls |-> NullIfEmpty(toolCalls),
          actions |-> NullIfEmpty(completedActions)])
  ELSE messages

\* routes.ts 845-852: the message table after storage.createMessage
AssistantSaved ==
  Append(messages,
    [role |-> "assistant", content |-> fullResponse,
     toolCalls |-> NullIfEmpty(toolCalls),
     actions |-> NullIfEmpty(completedActions)])

\* routes.ts 846-859: storage.createMessage returns
PersistAssistant ==
  /\ pc = "persist"
  /\ messages' = AssistantSaved
  /\ keepaliveInterval' = clearInterval(keepaliveInterval)
  /\ log' = WriteIfConnected(log, "done", 0)
  /\ resEnded' = (resEnded \/ clientConnected)
  /\ pc' = "done"
  /\ UNCHANGED << clientConnected, aiMessages, handlerVars, projectVars,
                  faults, failure >>

\* storage.createMessage rejects
PersistFails ==
  /\ pc = "persist"
  /\ StreamingCatch("persist")

Next ==
  \/ Close
  \/ Heartbeat
  \/ CommandReturns
  \/ SaveUserMessage
  \/ SaveUserMessageFails
  \/ BuildContext
  \/ BuildContextFails
  \/ ModelCall
  \/ ModelCallFails
  \/ Fragment
  \/ StreamFails
  \/ StreamEnd
  \/ DispatchStart
  \/ DispatchFinish
  \/ Finalize
  \/ PersistAssistant
  \/ PersistFails

Spec == Init /\ [][Next]_vars

\* the turn for an output with malformed tool markers
MalformedFairSpec ==
  /\ Start({StreamBroken})
  /\ [][Next]_vars
  /\ WF_vars(DispatchStart)
  /\ WF_vars(DispatchFinish)
  /\ WF_vars(Finalize)
  /\ WF_vars(PersistAssistant)

\* the turn for an output with a shell command that is awaited
ShellFairSpec ==
  /\ Start({StreamFix})
  /\ [][Next]_vars
  /\ WF_vars(DispatchStart)
  /\ WF_vars(DispatchFinish)
  /\ WF_vars(Finalize)
  /\ WF_vars(PersistAssistant)

\* the generator alone: the turn up to the end of the model's stream, for
\* every fragmentation of the raw outputs
ParserNext ==
  \/ SaveUserMessage
  \/ BuildContext
  \/ ModelCall
  \/ Fragment
  \/ StreamEnd

ParserSpec == ParserInit /\ [][ParserNext]_vars

\* the handler's steps are continuations of awaited calls, which the event
\* loop runs once the call has settled
FairSpec ==
  /\ Spec
  /\ WF_vars(DispatchStart)
  /\ WF_vars(DispatchFinish)
  /\ WF_vars(Finalize)
  /\ WF_vars(PersistAssistant)

\* ------------------------------------------------------------------------
\* Terminal states and the persisted turn
\* ------------------------------------------------------------------------
Assistants == SelectSeq(messages, LAMBDA m : m.role = "assistant")

Draining == pc \in {"tools", "dispatching", "finalize", "persist"}
Finalized == pc = "done"
Aborted == pc = "stream_error"
HandlerEnded == pc \in {"done", "stream_error", "setup_error"}

StreamEndedNormally ==
  Draining \/ Finalized \/ (Aborted /\ failure.kind = "persist")

Types(l) == [ i \in 1..Len(l) |-> l[i].type ]

Count(l, type) == Cardinality({ i \in 1..Len(l) : l[i].type = type })

PersistedToolCalls == Assistants[1].toolCalls.items

PersistedActions == Assistants[1].actions.items

TimedOut == "Command timed out (running in background)"

\* ------------------------------------------------------------------------
\* Claims
\* ------------------------------------------------------------------------

\* C1: a turn whose model stream ended normally has exactly one assistant
\* ChatTurn persisted when the handler has ended, wherever the client
\* disconnected (the storage write of the turn not being rejected), and
\* no turn ever has two.
C1_ExactlyOneAssistantTurn ==
  /\ Len(Assistants) <= 1
  /\ (HandlerEnded /\ StreamEndedNormally /\ failure.kind # "persist")
       => Len(Assistants) = 1

\* the client left after the text was relayed and before the first tool
\* call had finished; the turn is persisted with its tool calls
C1_Witness ==
  /\ Finalized
  /\ ~clientConnected
  /\ Count(log, "chunk") > 0
  /\ Count(log, "tool") = 0
  /\ Len(Assistants) = 1
  /\ Len(PersistedToolCalls) > 0

\* C2: once the stream has ended, the turn reaches Finalized with every
\* parsed tool call dispatched and one assistant ChatTurn persisted,
\* whichever tool calls throw, unless the storage write of the turn is
\* rejected.
C2_DrainingReachesFinalized ==
  Draining ~>
    \/ /\ Finalized
       /\ dispatched = [ i \in 1..Len(dispatched) |->
                           parseToolCalls(fullContent)[i].at ]
       /\ Len(dispatched) = Len(parseToolCalls(fullContent))
       /\ Len(Assistants) = 1
    \/ failure.kind = "persist"

\* a tool call threw and a later tool call of the same turn is recorded in
\* the persisted turn
C2_Witness ==
  /\ Finalized
  /\ \E a \in thrown : \E i \in 1..Len(PersistedToolCalls) :
       PersistedToolCalls[i].at > a

\* C3: every tool call whose dispatch threw has a ToolCallRecord in the
\* persisted assistant ChatTurn, and a client still connected has received
\* an error event for it.
C3_ThrownCallsRecorded ==
  Finalized =>
    \A a \in thrown :
      /\ \E i \in 1..Len(PersistedToolCalls) : PersistedToolCalls[i].at = a
      /\ clientConnected =>
           \E j \in 1..Len(log) : log[j].type = "error" /\ log[j].ref = a

\* C4: at Finalized every side effect performed by a tool call of the turn
\* belongs to a tool call that has a ToolCallRecord in the persisted turn.
C4_EffectsRecorded ==
  Finalized =>
    \A k \in 1..Len(effects) :
      \E i \in 1..Len(PersistedToolCalls) :
        PersistedToolCalls[i].at = effects[k].at

NewRecords == { toolCalls'[i] : i \in (Len(toolCalls) + 1)..Len(toolCalls') }

\* C5 as stated: no ToolCallRecord is appended while the shell command of
\* its tool call is still running.
C5_RecordAfterSideEffect ==
  [][\A r \in NewRecords : r.at \notin running']_vars

\* C5 as amended: a ToolCallRecord is appended when the handler resumes
\* from the awaits of its tool call, and the call's command is still
\* running then only for a run_shell that is a server command or whose
\* timeout fired.
C5_RecordAfterAwaitedSideEffect ==
  [][\A r \in NewRecords :
       /\ pc = "dispatching"
       /\ cur[1].tc.at = r.at
       /\ r.at \in running' =>
            /\ r.name = RUN_SHELL
            /\ \/ isServerCommand(Str(Prop(r.arguments, K_command)))
               \/ r.result.stderr = TimedOut]_vars

\* the acknowledgement of a server command is in the list while the
\* command runs, and so is the record of a command that timed out
C5_Witness ==
  /\ \E i \in 1..Len(toolCalls) :
       /\ toolCalls[i].at \in running
       /\ isServerCommand(Str(Prop(toolCalls[i].arguments, K_command)))
  /\ \E i \in 1..Len(toolCalls) : toolCalls[i].at \notin running

\* C6: every ActionRecord of a persisted assistant ChatTurn has status
\* completed or error.
C6_NoDanglingAction ==
  \A k \in 1..Len(Assistants) :
    \A i \in 1..Len(Assistants[k].actions.items) :
      Assistants[k].actions.items[i].status \in {"completed", "error"}

\* two actions were emitted as in_progress, the client left, and the turn
\* is persisted with both actions
C6_Witness ==
  /\ Finalized
  /\ ~clientConnected
  /\ Len(actions) >= 2
  /\ \A i \in 1..Len(actions) : actions[i].status = "in_progress"
  /\ Len(PersistedActions) = Len(actions)

\* C7: nothing is written to the client channel once the close signal has
\* been received.
C7_NoWriteAfterClose ==
  /\ \A i \in 1..Len(log) : log[i].connected
  /\ ~keepaliveInterval.afterClose

\* C8: when the model call fails before any output, the turn ends with the
\* user message stored, no assistant ChatTurn, no tool call dispatched, and
\* for a connected client one error event on an ended channel and no done.
C8_PreStreamFailureAborts ==
  (Aborted /\ failure.kind \in {"model_call", "stream"}
           /\ failure.received = 0) =>
    /\ \E i \in 1..Len(messages) :
         messages[i].role = "user" /\ messages[i].content = UserContent
    /\ Len(Assistants) = 0
    /\ dispatched = <<>>
    /\ effects = <<>>
    /\ clientConnected => (Types(log) = << "error" >> /\ resEnded)

C8_Witness ==
  /\ Aborted
  /\ failure = [kind |-> "model_call", received |-> 0]
  /\ clientConnected
  /\ Types(log) = << "error" >>
  /\ Len(messages) = 1

\* C9: a turn whose setup and storage writes succeed ends Finalized with
\* an assistant ChatTurn, or Aborted without one, and Aborted only when
\* the model failed before any output.
C9_AbortOnlyBeforeOutput ==
  (HandlerEnded /\ pc # "setup_error" /\ failure.kind # "persist") =>
    \/ Finalized /\ Len(Assistants) = 1
    \/ Aborted /\ failure.received = 0 /\ Len(Assistants) = 0

Ordered(recs) ==
  \A i, j \in 1..Len(recs) : i < j => recs[i].at < recs[j].at

AtMarker(recs) ==
  \A i \in 1..Len(recs) :
    StartsWithAt(fullContent, recs[i].at,
                 ToolOpen \o recs[i].name \o << "]" >>)

\* C10: the ToolCallRecords of the turn, while collected and as persisted,
\* are in the order of their markers in the model output.
C10_RecordsInMarkerOrder ==
  /\ Ordered(toolCalls) /\ AtMarker(toolCalls)
  /\ \A k \in 1..Len(Assistants) :
       /\ Ordered(Assistants[k].toolCalls.items)
       /\ AtMarker(Assistants[k].toolCalls.items)

\* four different tools recorded in one persisted turn
C10_Witness ==
  /\ Finalized
  /\ Len(PersistedToolCalls) = 4
  /\ Cardinality({ PersistedToolCalls[i].name : i \in 1..4 }) = 4

\* C11: the events of the generator are in the order of their text: a
\* tool_call event comes after every text or action event whose text
\* precedes its marker and before every text or action event whose text
\* follows it.
C11_EventsInTextOrder ==
  \A i, j \in 1..Len(yielded) :
    (yielded[i].type = "tool_call" /\ yielded[j].type \in {"text", "action"})
      => /\ yielded[j].to < yielded[i].from => j < i
         /\ yielded[j].from > yielded[i].from => i < j

\* the action and tool_call events of an output that arrives as a single
\* fragment: gemini.ts 315-345 for one chunk
SingleFragment(raw) ==
  LET first == parseActionsFromBuffer(raw, FALSE)
      final == IF Trim(first.remaining) # <<>>
               THEN Located(parseActionsFromBuffer(first.remaining, TRUE).actions,
                            Len(raw) - Len(first.remaining))
               ELSE <<>>
  IN  [actions |-> first.actions \o final, tools |-> parseToolCalls(raw)]

StreamConsumed == stream = <<>> /\ pc \in {"tools", "finalize"}

\* C12: however the output was cut into fragments, the action and
\* tool_call events emitted when the stream has ended are those emitted
\* for the same output fed as a single fragment, each marker once.
C12_SplitInvariant ==
  StreamConsumed =>
    /\ actions = SingleFragment(fullContent).actions
    /\ pending = SingleFragment(fullContent).tools

\* every match of toolPattern in the output, in order
RECURSIVE ToolMatches(_, _)
ToolMatches(content, i) ==
  LET m == ToolMatchFrom(content, i) IN
  IF m.at = 0 THEN <<>> ELSE << m >> \o ToolMatches(content, m.end)

\* a payload is malformed when no JSON value starts it: it is cut short or
\* is not JSON
Malformed(m) == ~ParseValue(Trim(m.raw), 1).ok

MalformedAt(content) ==
  LET ms == ToolMatches(content, 1) IN
  { ms[i].at : i \in { k \in 1..Len(ms) : Malformed(ms[k]) } }

WellFormedAt(content) ==
  LET ms == ToolMatches(content, 1)
      ok == SelectSeq(ms, LAMBDA m : ~Malformed(m))
  IN  [ i \in 1..Len(ok) |-> ok[i].at ]

\* C13: a tool marker whose payload is cut short or does not parse never
\* yields a tool_call event, and once the stream has ended the turn reaches
\* Finalized with exactly the well-formed tool calls of the output
\* dispatched, in order (unless the storage write of the turn is rejected).
C13_MalformedNeverAborts ==
  /\ [](dispatched # <<>> =>
          LET malformed == MalformedAt(fullContent) IN
          \A i \in 1..Len(yielded) :
            yielded[i].type = "tool_call" => yielded[i].from \notin malformed)
  /\ Draining ~>
       \/ Finalized /\ dispatched = WellFormedAt(fullContent)
       \/ failure.kind = "persist"

\* an output with a malformed marker before and after well-formed ones,
\* which were dispatched
C13_Witness ==
  /\ Finalized
  /\ Len(dispatched) >= 2
  /\ \E a, b \in MalformedAt(fullContent) :
       a < dispatched[1] /\ b > dispatched[Len(dispatched)]

\* C14: for every tool marker dropped because its payload is malformed the
\* generator has yielded an error event naming it, and a client that is
\* still connected has received an error event for it.
C14_MalformedReported ==
  Finalized =>
    \A a \in MalformedAt(fullContent) :
      /\ \E i \in 1..Len(yielded) :
           yielded[i].type = "error" /\ yielded[i].from = a
      /\ clientConnected =>
           \E j \in 1..Len(log) : log[j].type = "error" /\ log[j].ref = a

EffectsOf(a) ==
  { effects[k].kind : k \in { j \in 1..Len(effects) : effects[j].at = a } }

\* C15: a write_file call whose blob-store write succeeded and whose
\* sandbox write failed has a ToolCallRecord in the turn's list, and the
\* path has a File record that points to the blob.
C15_MirrorFailureStillWrites ==
  LET calls == parseToolCalls(fullContent) IN
  \A i \in 1..Len(calls) :
    ( /\ calls[i].name = WRITE_FILE
      /\ "blob_put" \in EffectsOf(calls[i].at)
      /\ "sandbox_write" \notin EffectsOf(calls[i].at) )
    => /\ \E k \in 1..Len(toolCalls) : toolCalls[k].at = calls[i].at
       /\ \E g \in files :
            /\ g.path = Str(Prop(calls[i].arguments, K_path))
            /\ g.s3Key = S3KeyOf(g.path)

ParsedCalls == parseToolCalls(fullContent)

PathOf(tc) == Str(Prop(tc.arguments, K_path))

\* the write_file calls of the turn for path p, as indices of ParsedCalls
WritesOf(p) ==
  { i \in 1..Len(ParsedCalls) :
      ParsedCalls[i].name = WRITE_FILE /\ PathOf(ParsedCalls[i]) = p }

Recorded(i) ==
  \E k \in 1..Len(toolCalls) : toolCalls[k].at = ParsedCalls[i].at

\* no edit_file or delete_file call after call i has changed path p
NoLaterChange(p, i) ==
  \A j \in (i + 1)..Len(ParsedCalls) :
    ( /\ ParsedCalls[j].name \in {EDIT_FILE, DELETE_FILE}
      /\ PathOf(ParsedCalls[j]) = p )
    => EffectsOf(ParsedCalls[j].at) = {}

WrittenPaths ==
  { PathOf(ParsedCalls[i]) :
      i \in { k \in 1..Len(ParsedCalls) : ParsedCalls[k].name = WRITE_FILE } }

Last(S) == CHOOSE i \in S : \A j \in S : j <= i

\* at most one File record for p, and it points to the content of the
\* last of the write_file calls w
PointsToLast(p, w) ==
  /\ Cardinality({ g \in files : g.path = p }) <= 1
  /\ (w # {} /\ NoLaterChange(p, Last(w))) =>
       \A g \in files :
         g.path = p =>
           getFileFromS3(blobs, g.s3Key) =
             { Str(Prop(ParsedCalls[Last(w)].arguments, K_content)) }

\* C16: every path has at most one File record, and it points to the
\* content of the last write_file call for the path that succeeded (that
\* returned without error and was recorded).
C16_RecordOfLastSuccessfulWrite ==
  \A p \in WrittenPaths : PointsToLast(p, { i \in WritesOf(p) : Recorded(i) })

NewEffects ==
  { effects'[k].kind : k \in (Len(effects) + 1)..Len(effects') }

\* the handler resumes from the awaits of the tool call it is dispatching
DispatchReturns == pc = "dispatching" /\ pc' # "dispatching"

\* C17: a delete_file call on a path with a File record, whose blob-store
\* deletion succeeds and whose sandbox deletion fails (nothing else
\* failing), records the result storage deleted, sandbox not deleted,
\* database deleted, and the File record of the path is removed.
C17_PartialDeletion ==
  [][( /\ DispatchReturns
       /\ cur[1].tc.name = DELETE_FILE
       /\ getFileByPath(files, PathOf(cur[1].tc)) # {}
       /\ faults' = faults + 1
       /\ "blob_delete" \in NewEffects
       /\ "sandbox_delete" \notin NewEffects )
     => /\ \E r \in NewRecords :
             /\ r.at = cur[1].tc.at
             /\ r.result = [kind |-> "deletion", s3 |-> TRUE,
                            sandbox |-> FALSE, database |-> TRUE]
        /\ getFileByPath(files', PathOf(cur[1].tc)) = {}]_vars

\* the record of a deletion that the sandbox refused: the blob and the
\* File record are gone, the sandbox still has the file
C17_Witness ==
  \E i \in 1..Len(toolCalls) :
    /\ toolCalls[i].name = DELETE_FILE
    /\ toolCalls[i].summary.kind = "PartiallyDeleted"
    /\ toolCalls[i].result.s3 /\ ~toolCalls[i].result.sandbox
    /\ toolCalls[i].result.database
    /\ getFileByPath(files, PathOf(toolCalls[i])) = {}
    /\ blobs = {}
    /\ \E x \in sandboxFs : x.path = PathOf(toolCalls[i])

\* the content the File record of path p points to, as a set (empty when
\* the path has no record)
CurrentContent(p) ==
  UNION { getFileFromS3(blobs, g.s3Key) : g \in getFileByPath(files, p) }

\* C18: an edit_file call on a path without a File record, or whose
\* old_str does not occur in the current content of the file, ends in an
\* error outcome, with no Edited ToolCallRecord, and leaves the stored
\* content unchanged.
C18_EditErrors ==
  [][( /\ DispatchReturns
       /\ cur[1].tc.name = EDIT_FILE
       /\ \/ getFileByPath(files, PathOf(cur[1].tc)) = {}
          \/ \E c \in CurrentContent(PathOf(cur[1].tc)) :
               ~Includes(c, Str(Prop(cur[1].tc.arguments, K_old_str))) )
     => /\ \/ cur[1].tc.at \in thrown'
           \/ \E r \in NewRecords : r.summary.kind = "Error"
        /\ \A r \in NewRecords : r.summary.kind # "Edited"
        /\ blobs' = blobs
        /\ sandboxFs' = sandboxFs]_vars

CommandOf(tc) == Str(Prop(tc.arguments, K_command))

\* C19: a run_shell call whose command is classified as a server command
\* returns to the dispatcher (the storage write of the workflow command not
\* being rejected) with its acknowledgement record appended, the project's
\* workflow command equal to the command, and the command still running if
\* it was running: the dispatcher has not waited for it.
C19_LongRunningNotAwaited ==
  [][( /\ DispatchReturns
       /\ IsServerCall(cur[1].tc)
       /\ faults' = faults )
     => /\ \E r \in NewRecords :
             /\ r.at = cur[1].tc.at
             /\ r.summary = [kind |-> "Started", arg |-> CommandOf(cur[1].tc)]
             /\ r.result = ShellResult("Server started in background", "", 0)
        /\ workflowCommand' = CommandOf(cur[1].tc)
        /\ cur[1].tc.at \in running => cur[1].tc.at \in running']_vars

\* two server commands of one turn are acknowledged while both still run,
\* and the workflow command is the second
C19_Witness ==
  /\ Len(toolCalls) = 2
  /\ \A i \in 1..2 :
       /\ toolCalls[i].summary.kind = "Started"
       /\ toolCalls[i].at \in running
  /\ workflowCommand = CommandOf(toolCalls[2])
  /\ workflowCommand # CommandOf(toolCalls[1])

\* the handler waits in Promise.race for a command that is not a server
\* command and that the sandbox has started and not returned from
AwaitingCommand ==
  /\ pc = "dispatching"
  /\ IsShellCall(cur[1].tc) /\ ~IsServerCall(cur[1].tc)
  /\ cur[1].tc.at \in running

\* C20: when the handler resumes from a run_shell command that is not a
\* server command and that has not returned, the record appended has
\* exitCode 0 and stderr 'Command timed out (running in background)'; and
\* a turn waiting for such a command reaches Finalized with every parsed
\* tool call dispatched (unless the storage write of the turn is rejected).
C20_TimeoutDoesNotBlock ==
  /\ [][(AwaitingCommand /\ DispatchReturns /\ cur[1].tc.at \in running')
        => \E r \in NewRecords :
             /\ r.at = cur[1].tc.at
             /\ r.result.exitCode = 0
             /\ r.result.stderr = TimedOut
             /\ r.result.stdout = ""]_vars
  /\ AwaitingCommand ~>
       \/ /\ Finalized
          /\ Len(dispatched) = Len(ParsedCalls)
          /\ \A i \in 1..Len(dispatched) : dispatched[i] = ParsedCalls[i].at
       \/ failure.kind = "persist"

\* the turn is Finalized, the command that timed out has still not
\* returned, and the tool call after it is recorded
C20_Witness ==
  /\ Finalized
  /\ \E i \in 1..Len(PersistedToolCalls) :
       /\ PersistedToolCalls[i].name = RUN_SHELL
       /\ PersistedToolCalls[i].result.stderr = TimedOut
       /\ PersistedToolCalls[i].result.exitCode = 0
       /\ PersistedToolCalls[i].at \in running
       /\ i < Len(PersistedToolCalls)

\* the tool call of the output whose marker is at position a
CallAt(a) ==
  ParsedCalls[CHOOSE i \in 1..Len(ParsedCalls) : ParsedCalls[i].at = a]

\* C21: no two tool calls of a turn execute concurrently, but for server
\* commands: a command still running in the sandbox is either a run_shell
\* command classified as a server command or the command of the tool call
\* the dispatcher is waiting for (a command whose timeout fired included).
C21_SequentialDispatch ==
  \A a \in running :
    \/ IsServerCall(CallAt(a))
    \/ IF cur = <<>> THEN FALSE ELSE cur[1].tc.at = a

WEB_SEARCH == <<"w", "e", "b", "_", "s", "e", "a", "r", "c", "h">>
CREATE_BOILERPLATE == <<"c", "r", "e", "a", "t", "e", "_", "b", "o", "i", "l", "e", "r", "p", "l", "a", "t", "e">>

\* the tool names of the dispatcher's enum
ToolNames ==
  {CREATE_BOILERPLATE, WRITE_FILE, EDIT_FILE, DELETE_FILE, LIST_FILES,
   READ_FILE, RUN_SHELL, RUN_CODE, WEB_SEARCH, CONFIGURE_WORKFLOW}

\* C23: a tool call with a name of the dispatcher's enum whose dispatch
\* returns without throwing has appended exactly one ToolCallRecord, its
\* own; a web_search call has invoked the search collaborator.
C23_EveryToolRecorded ==
  [][( /\ DispatchReturns
       /\ cur[1].tc.name \in ToolNames
       /\ cur[1].tc.at \notin thrown' )
     => /\ Cardinality(NewRecords) = 1
        /\ \A r \in NewRecords :
             r.at = cur[1].tc.at /\ r.name = cur[1].tc.name
        /\ cur[1].tc.name = WEB_SEARCH => "web_search" \in NewEffects]_vars

DoneAt == { i \in 1..Len(log) : log[i].type = "done" }

\* C22: the done event is in the channel only when the assistant ChatTurn
\* of the turn is persisted; it is written at most once and is the last
\* event of the turn; and a turn that ended with a turn-level error (or in
\* the setup catch) has written no done.
C22_DoneIsTerminal ==
  /\ Cardinality(DoneAt) <= 1
  /\ \A i \in DoneAt : i = Len(log) /\ Len(Assistants) = 1 /\ Finalized
  /\ (Aborted \/ pc = "setup_error") => DoneAt = {}
  /\ \A j \in 1..Len(log) :
       (log[j].type = "error" /\ log[j].ref = 0) => DoneAt = {}

\* a turn with actions and a tool call that threw, whose client stayed:
\* done closes a channel that carries chunk, action, tool-level error,
\* tool and actions_completed events
C22_Witness ==
  /\ Finalized
  /\ clientConnected
  /\ Len(log) >= 5
  /\ log[Len(log)].type = "done"
  /\ log[Len(log) - 1].type = "actions_completed"
  /\ \E j \in 1..Len(log) : log[j].type = "error" /\ log[j].ref # 0
  /\ Count(log, "tool") > 0
  /\ Len(Assistants) = 1

\* the context the handler builds for the next turn of the project, its
\* user message stored and the history loaded (routes.ts 540-577)
NextTurnContext ==
  ContextOf(Append(messages, UserMessage(UserContent)), UserContent)

\* a context entry carries the result of record r
CarriesResult(entry, r) ==
  /\ "toolCalls" \in DOMAIN entry
  /\ ~entry.toolCalls.isNull
  /\ \E k \in 1..Len(entry.toolCalls.items) :
       /\ entry.toolCalls.items[k].at = r.at
       /\ entry.toolCalls.items[k].result = r.result

\* C24: the result of every tool call executed in a turn is part of the
\* input of a model call issued after the tool call returned: the turn
\* issues no model call after its tool calls, so of the model call of the
\* next turn of the project.
C24_ResultsReachModel ==
  Finalized =>
    \A i \in 1..Len(toolCalls) :
      toolCalls[i].result # NoResult =>
        \E k \in 1..Len(NextTurnContext) :
          CarriesResult(NextTurnContext[k], toolCalls[i])

\* ------------------------------------------------------------------------
\* Inputs for the payload of a tool marker: outputs whose payload has
\* braces or marker text inside, whole or cut in two by the provider
\* ------------------------------------------------------------------------
\* balanced braces inside a string
OutBalanced ==
  <<"[", "t", "o", "o", "l", ":", "w", "r", "i", "t", "e", "_", "f", "i", "l", "e", "]", "{", "\"", "p", "a", "t", "h", "\"", ":", "\"", "a", "\"", ",", "\"", "c", "o", "n", "t", "e", "n", "t", "\"", ":", "\"", "<", "b", ">", "{", "h", "i", "}", "<", "/", "b", ">", "\"", "}">>

\* a closing brace inside a string
OutClosing ==
  <<"[", "t", "o", "o", "l", ":", "w", "r", "i", "t", "e", "_", "f", "i", "l", "e", "]", "{", "\"", "p", "a", "t", "h", "\"", ":", "\"", "a", "\"", ",", "\"", "c", "o", "n", "t", "e", "n", "t", "\"", ":", "\"", "}", "\"", "}">>

\* an opening brace inside a string, text after the payload
OutOpening ==
  <<"[", "t", "o", "o", "l", ":", "w", "r", "i", "t", "e", "_", "f", "i", "l", "e", "]", "{", "\"", "p", "a", "t", "h", "\"", ":", "\"", "a", "\"", ",", "\"", "c", "o", "n", "t", "e", "n", "t", "\"", ":", "\"", "{", "\"", "}", " ", "o", "k">>

\* a nested object
OutNested ==
  <<"[", "t", "o", "o", "l", ":", "r", "u", "n", "_", "c", "o", "d", "e", "]", "{", "\"", "c", "o", "d", "e", "\"", ":", "\"", "1", "\"", ",", "\"", "o", "p", "t", "s", "\"", ":", "{", "\"", "k", "\"", ":", "\"", "v", "\"", "}", "}">>

\* the text of a tool marker inside a string
OutMarkerInString ==
  <<"[", "t", "o", "o", "l", ":", "w", "r", "i", "t", "e", "_", "f", "i", "l", "e", "]", "{", "\"", "p", "a", "t", "h", "\"", ":", "\"", "a", "\"", ",", "\"", "c", "o", "n", "t", "e", "n", "t", "\"", ":", "\"", "[", "t", "o", "o", "l", ":", "l", "i", "s", "t", "_", "f", "i", "l", "e", "s", "]", "{", "}", "\"", "}">>

PayloadOutputs ==
  {OutBalanced, OutClosing, OutOpening, OutNested, OutMarkerInString}

PayloadStreams == UNION { Splits(raw, 2) : raw \in PayloadOutputs }

PayloadInit == Start(PayloadStreams)

\* the generator alone, for the payload inputs
PayloadSpec == PayloadInit /\ [][ParserNext]_vars

\* The tool calls an output is meant to carry: for every marker outside a
\* payload, the JSON value that starts after it, which ends where brace
\* depth returns to zero outside a string.  from and to span the payload.
RECURSIVE IntendedFrom(_, _)
IntendedFrom(s, i) ==
  LET at == IndexOfFrom(s, ToolOpen, i) IN
  IF at = 0 THEN <<>>
  ELSE LET n == at + Len(ToolOpen)
           w == WordEnd(s, n)
           v == ParseValue(s, w + 1)
       IN  IF w > n /\ StartsWithAt(s, w, <<"]", "{">>) /\ v.ok
           THEN << [name |-> SubSeq(s, n, w - 1), arguments |-> v.val,
                    at |-> at, from |-> w + 1, to |-> v.pos - 1] >>
                \o IntendedFrom(s, v.pos)
           ELSE IntendedFrom(s, at + 1)

Intended == IntendedFrom(fullContent, 1)

\* the payload has a brace besides its outermost pair: a nested object or
\* a brace inside a string
BracePayload(c) ==
  \E k \in (c.from + 1)..(c.to - 1) : fullContent[k] \in {"{", "}"}

\* C25: for every tool marker whose payload contains a nested object or
\* braces inside a string, balanced or not, the parser emits exactly one
\* ToolCall, with the marker's name and the arguments the payload denotes.
C25_BracesInPayload ==
  StreamConsumed =>
    \A i \in 1..Len(Intended) :
      BracePayload(Intended[i]) =>
        /\ Cardinality({ k \in 1..Len(pending) :
                           pending[k].at = Intended[i].at }) = 1
        /\ \A k \in 1..Len(pending) :
             pending[k].at = Intended[i].at =>
               /\ pending[k].name = Intended[i].name
               /\ pending[k].arguments = Intended[i].arguments

\* the tool marker at position c lies inside the payload of the marker d
InsidePayload(c, d) == d.from < c /\ c <= d.to

\* the payload of marker d holds the text of a tool marker
HoldsMarkerText(d) ==
  \E c \in (d.from + 1)..d.to : StartsWithAt(fullContent, c, ToolOpen)

\* C28: no ToolCall is emitted for text inside the JSON string of a
\* marker's payload, and a marker whose payload holds the text of a tool
\* marker yields exactly one ToolCall, with that text in its arguments.
C28_NoCallFromPayloadText ==
  StreamConsumed =>
    /\ \A k \in 1..Len(pending) :
         \A i \in 1..Len(Intended) :
           ~InsidePayload(pending[k].at, Intended[i])
    /\ \A i \in 1..Len(Intended) :
         HoldsMarkerText(Intended[i]) =>
           \E k \in 1..Len(pending) :
             /\ pending[k].at = Intended[i].at
             /\ pending[k].name = Intended[i].name
             /\ pending[k].arguments = Intended[i].arguments

\* C26: a delete_file call removes the File record only if the blob-store
\* deletion or the sandbox deletion succeeded: its result has database
\* deleted only with storage or sandbox deleted, the flags are what was
\* done, and when both deletions fail or the path has no File record the
\* File records are unchanged and the result reports nothing deleted.
C26_RecordDeletedOnlyAfterDeletion ==
  [][( /\ DispatchReturns
       /\ cur[1].tc.name = DELETE_FILE
       /\ cur[1].tc.at \notin thrown' )
     => \E r \in NewRecords :
          /\ r.at = cur[1].tc.at
          /\ r.result.database => (r.result.s3 \/ r.result.sandbox)
          /\ r.result.database <=>
               /\ getFileByPath(files, PathOf(cur[1].tc)) # {}
               /\ files' = files \ getFileByPath(files, PathOf(cur[1].tc))
          /\ r.result.s3 => CurrentContent(PathOf(cur[1].tc)) # {}
                            /\ blobs' # blobs
          /\ ~r.result.s3 => blobs' = blobs
          /\ ~r.result.sandbox => sandboxFs' = sandboxFs
          /\ ( \/ getFileByPath(files, PathOf(cur[1].tc)) = {}
               \/ (blobs' = blobs /\ ~r.result.sandbox) )
             => /\ files' = files
                /\ r.result = [kind |-> "deletion", s3 |-> FALSE,
                               sandbox |-> FALSE, database |-> FALSE]]_vars

\* both deletions failed: the record of the call reports nothing deleted
\* and the File record, the blob and the sandbox file are still there
C26_Witness ==
  \E i \in 1..Len(toolCalls) :
    /\ toolCalls[i].name = DELETE_FILE
    /\ toolCalls[i].summary.kind = "PartiallyDeleted"
    /\ toolCalls[i].summary.errors = << "S3", "Sandbox" >>
    /\ ~toolCalls[i].result.s3 /\ ~toolCalls[i].result.sandbox
    /\ ~toolCalls[i].result.database
    /\ getFileByPath(files, PathOf(toolCalls[i])) # {}
    /\ CurrentContent(PathOf(toolCalls[i])) # {}
    /\ \E x \in sandboxFs : x.path = PathOf(toolCalls[i])

\* the project's messages when the turn starts (Start)
EarlierMessages == <<>>

\* the context entries before the final one
History == SubSeq(aiMessages, 1, Len(aiMessages) - 1)

\* C27: in the context sent to the model the current user message is the
\* final entry, with the sandbox annex or without, and appears nowhere
\* else: the entries before it are the messages of earlier turns; and the
\* user ChatTurn is stored with the submitted text, without the annex.
C27_UserMessageOnce ==
  aiMessages # <<>> =>
    /\ aiMessages[Len(aiMessages)].role = "user"
    /\ aiMessages[Len(aiMessages)].content
         \in {UserContent, UserContent \o SandboxContext}
    /\ History = [ i \in 1..Len(EarlierMessages) |->
                   [role |-> EarlierMessages[i].role,
                    content |-> EarlierMessages[i].content] ]
    /\ messages[Len(EarlierMessages) + 1].role = "user"
    /\ messages[Len(EarlierMessages) + 1].content = UserContent

\* C29: on every path by which the handler ends (finalization, the
\* streaming catch, the setup catch) the heartbeat timer has been
\* cancelled, and no heartbeat is ever written to a response that has
\* been ended.
C29_TimerCancelled ==
  /\ HandlerEnded => ~keepaliveInterval.active
  /\ ~keepaliveInterval.afterEnd

\* ------------------------------------------------------------------------
\* The sandbox registry (activeSandboxes) under the operations of one
\* project.  Operation 1 is the executeShellCommand of a server command,
\* which routes.ts 763 does not await; the others are the sandbox
\* operations issued after it (writeFileToSandbox and the like), by the
\* turn or by other requests.  An operation is suspended where the source
\* awaits: in Sandbox.create ("creating") and in the sandbox ("running").
\* ------------------------------------------------------------------------
\* what the registry's operations leave alone
turnVars ==
  << pc, clientConnected, keepaliveInterval, resEnded, log, messages,
     aiMessages, handlerVars, files, nextFileId, blobs, sandboxFs,
     workflowCommand, running, effects, dispatched, thrown, faults, failure >>

\* getOrCreateSandbox up to its first await (part_014 205-209): the handle
\* of the registry if there is one, else createSandbox is called
SandboxCall(o) ==
  /\ sandboxOps[o].pc = "idle"
  /\ IF o = 1 THEN TRUE ELSE sandboxOps[o - 1].pc # "idle"
  /\ sandboxOps' =
       [sandboxOps EXCEPT ![o] =
          IF activeSandboxes # <<>>
          THEN [pc |-> "running", sandbox |-> activeSandboxes[1]]
          ELSE [pc |-> "creating", sandbox |-> 0]]
  /\ UNCHANGED << activeSandboxes, sandboxesCreated, turnVars >>

\* Sandbox.create resolves (part_014 186-190): the new sandbox replaces the
\* registry entry, and getOrCreateSandbox returns what the registry holds
\* (210-217)
SandboxCreated(o) ==
  /\ sandboxOps[o].pc = "creating"
  /\ sandboxesCreated' = sandboxesCreated + 1
  /\ activeSandboxes' = << sandboxesCreated + 1 >>
  /\ sandboxOps' = [sandboxOps EXCEPT ![o] =
                      [pc |-> "running", sandbox |-> sandboxesCreated + 1]]
  /\ UNCHANGED turnVars

\* Sandbox.create rejects (part_014 196-198): the operation ends in its
\* catch, without a handle
SandboxCreateFails(o) ==
  /\ sandboxOps[o].pc = "creating"
  /\ sandboxOps' = [sandboxOps EXCEPT ![o].pc = "failed"]
  /\ UNCHANGED << activeSandboxes, sandboxesCreated, turnVars >>

\* sandbox.commands.run or sandbox.files.write returns (part_014 253, 277)
SandboxOpReturns(o) ==
  /\ sandboxOps[o].pc = "running"
  /\ sandboxOps' = [sandboxOps EXCEPT ![o].pc = "done"]
  /\ UNCHANGED << activeSandboxes, sandboxesCreated, turnVars >>

SandboxNext ==
  \E o \in 1..MaxSandboxOps :
    \/ SandboxCall(o)
    \/ SandboxCreated(o)
    \/ SandboxCreateFails(o)
    \/ SandboxOpReturns(o)

SandboxInit == Start({StreamBuild})

SandboxSpec == SandboxInit /\ [][SandboxNext]_vars

\* the operations that hold a sandbox handle
WithHandle == { o \in 1..MaxSandboxOps : sandboxOps[o].sandbox # 0 }

\* C30: for a project without a live sandbox handle, whatever the
\* interleaving of its sandbox operations, at most one sandbox is created,
\* every operation uses the same handle (the command not awaited and the
\* file write after it included), and the registry holds that sandbox.
C30_OneSandboxPerProject ==
  /\ sandboxesCreated <= 1
  /\ \A o, q \in WithHandle : sandboxOps[o].sandbox = sandboxOps[q].sandbox
  /\ \A o \in WithHandle : activeSandboxes = << sandboxOps[o].sandbox >>

====
